---- MODULE Spec2Model ----
(***************************************************************************)
(* AI Voice Studio (src/preload.js): the text chunker, the narration       *)
(* production run and the duplex live session, as state machines.          *)
(*                                                                         *)
(* Strings are sequences of one-character strings; string positions are    *)
(* the 0-based positions of the JavaScript source.                         *)
(***************************************************************************)
EXTENDS Integers, Sequences, FiniteSets, TLC

\* ------------------------------------------------------------------ bounds
MaxLen == 4
MaxChars == 3
\* The production run's chunk size: splitTextIntoChunks' default of 3000
\* characters (src/preload.js:115), scaled down with the scripts.
NarrMaxChars == 10
\* Production runs started one after the other.
MaxRuns == 2
\* Live sessions started one after the other, server messages received, the
\* longest inbound buffer and the last instant of the audio clock.
MaxSessions == 2
MaxMsgs == 2
MaxDur == 2
MaxClock == 2
LiveClock == 1
\* The longest script of the runs over the rule lists.
RuleLen == 3
\* The buffers and the last instant of the audio clock of one session's
\* playback schedule.
SchedMsgs == 3
SchedClock == 4
\* The messages of the transcript's sessions.
TransMsgs == 3
\* The samples of one captured buffer (4096 in the code, line 460) and the
\* steps a sample's range from 0 to 1 is divided in.
FrameLen == 2
SampleScale == 5
\* line 463: the factor of the linear scaling
PcmScale == 32768

\* The characters texts are drawn from: two letters, and the three kinds of
\* whitespace the chunker tells apart (it cuts at ' ' and '\n'; trim() also
\* removes '\t').
Alphabet == {"a", "b", " ", "\n", "\t"}

RECURSIVE SeqsUpTo(_)
SeqsUpTo(n) ==
  IF n = 0 THEN {<<>>}
  ELSE LET shorter == SeqsUpTo(n - 1)
       IN  shorter \cup {Append(s, c) : s \in {t \in shorter : Len(t) = n - 1}, c \in Alphabet}

Texts == SeqsUpTo(MaxLen)

\* ------------------------------------------------------- string primitives
Max(a, b) == IF a >= b THEN a ELSE b
Min(a, b) == IF a <= b THEN a ELSE b

\* String.prototype.trim's white space, within Alphabet.
IsSpace(c) == c \in {" ", "\n", "\t"}

\* text.substring(from, to), 0 <= from <= to <= text.length
Substring(str, from, to) == SubSeq(str, from + 1, to)

\* A search that stops one short of fromIndex.
LastIndexOfBefore(str, ch, fromIndex) ==
  LET hits == {i \in 0..Min(fromIndex - 1, Len(str) - 1) : str[i + 1] = ch}
  IN  IF hits = {} THEN -1 ELSE CHOOSE i \in hits : \A j \in hits : j <= i

\* text.lastIndexOf(ch, fromIndex): the last 0-based index <= fromIndex holding
\* ch, or -1
LastIndexOf(str, ch, fromIndex) ==
  LET hits == {i \in 0..Min(fromIndex, Len(str) - 1) : str[i + 1] = ch}
  IN  IF hits = {} THEN -1 ELSE CHOOSE i \in hits : \A j \in hits : j <= i

\* str.trim()
Trim(str) ==
  LET keep == {i \in 1..Len(str) : ~IsSpace(str[i])}
  IN  IF keep = {} THEN <<>>
      ELSE SubSeq(str, CHOOSE i \in keep : \A j \in keep : i <= j,
                       CHOOSE i \in keep : \A j \in keep : j <= i)

\* The text with every white-space character deleted.
RECURSIVE StripSpace(_)
StripSpace(str) ==
  IF str = <<>> THEN <<>>
  ELSE IF IsSpace(Head(str)) THEN StripSpace(Tail(str))
       ELSE <<Head(str)>> \o StripSpace(Tail(str))

RECURSIVE Concat(_)
Concat(ss) == IF ss = <<>> THEN <<>> ELSE Head(ss) \o Concat(Tail(ss))

\* chunks.filter(c => c.length > 0)
RECURSIVE FilterNonEmpty(_)
FilterNonEmpty(ss) ==
  IF ss = <<>> THEN <<>>
  ELSE IF Len(Head(ss)) > 0 THEN <<Head(ss)>> \o FilterNonEmpty(Tail(ss))
       ELSE FilterNonEmpty(Tail(ss))

\* ----------------------------------------------------- splitTextIntoChunks
\* The cut position without the test of line 126 for progress.
EndPosForAnyBreak(str, limit, pos) ==
  LET endPos0 == IF pos + limit > Len(str) THEN Len(str) ELSE pos + limit
  IN  IF endPos0 < Len(str)
      THEN LET lastSpace   == LastIndexOf(str, " ", endPos0)
               lastNewline == LastIndexOf(str, "\n", endPos0)
               breakPoint  == Max(lastSpace, lastNewline)
           IN  IF breakPoint >= 0 THEN breakPoint ELSE endPos0
      ELSE endPos0

\* One iteration's cut position (the loop body's endPos).
EndPosFor(str, limit, pos) ==
  LET endPos0 == IF pos + limit > Len(str) THEN Len(str) ELSE pos + limit
  IN  IF endPos0 < Len(str)
      THEN LET lastSpace   == LastIndexOf(str, " ", endPos0)
               lastNewline == LastIndexOf(str, "\n", endPos0)
               breakPoint  == Max(lastSpace, lastNewline)
           IN  IF breakPoint > pos THEN breakPoint ELSE endPos0
      ELSE endPos0

\* The piece one iteration pushes.
PieceUntrimmed(str, pos, endPos) == Substring(str, pos, endPos)

PieceSkipFirst(str, pos, endPos) == Trim(Substring(str, Min(pos + 1, endPos), endPos))

Piece(str, pos, endPos) == Trim(Substring(str, pos, endPos))

\* The while loop, from position pos with the pieces pushed so far.
RECURSIVE SplitLoop(_, _, _, _)
SplitLoop(str, limit, pos, acc) ==
  IF pos < Len(str)
  THEN LET endPos == EndPosFor(str, limit, pos)
       IN  SplitLoop(str, limit, endPos, Append(acc, Piece(str, pos, endPos)))
  ELSE FilterNonEmpty(acc)

\* line 116: what the call returns for a text that fits in one chunk
ShortResultTrimmed(str) == <<Trim(str)>>

ShortResult(str) == <<str>>

splitTextIntoChunks(str, limit) ==
  IF Len(str) <= limit THEN ShortResult(str) ELSE SplitLoop(str, limit, 0, <<>>)


\* ------------------------------------------------- pronunciation rules
\* \w of the regular expression, and the letters' lower case (flag i)
IsWordChar(c) == c \in {"a", "b", "A", "B"}

Lower(c) == IF c = "A" THEN "a" ELSE IF c = "B" THEN "b" ELSE c

LowerStr(str) == [k \in 1..Len(str) |-> Lower(str[k])]

\* \b at 0-based position p of str: exactly one of the characters before and
\* after p is a word character
WordBoundary(str, p) ==
  LET before == p >= 1 /\ p <= Len(str) /\ IsWordChar(str[p])
      after  == p >= 0 /\ p < Len(str) /\ IsWordChar(str[p + 1])
  IN  before # after

\* One character of the pattern against one of the text, under flag i: the
\* word goes into the pattern as it is, so a '.' in it is the wildcard, which
\* matches every character but a line terminator
CharMatches(pc, c) == IF pc = "." THEN c # "\n" ELSE Lower(pc) = Lower(c)

\* /\bword\b/gi matches at 0-based position p
MatchesAt(str, word, p) ==
  /\ p + Len(word) <= Len(str)
  /\ \A k \in 1..Len(word) : CharMatches(word[k], str[p + k])
  /\ WordBoundary(str, p)
  /\ WordBoundary(str, p + Len(word))

\* str.replace(new RegExp(`\\b${word}\\b`, 'gi'), alias), for a non-empty word
\* of letters and dots: the matches are taken left to right and do not overlap
RECURSIVE ReplaceFrom(_, _, _, _)
ReplaceFrom(str, word, alias, p) ==
  IF p >= Len(str) THEN <<>>
  ELSE IF MatchesAt(str, word, p)
       THEN alias \o ReplaceFrom(str, word, alias, p + Len(word))
       ELSE <<str[p + 1]>> \o ReplaceFrom(str, word, alias, p + 1)

ReplaceWord(str, word, alias) == ReplaceFrom(str, word, alias, 0)

\* The rules taken last to first.
RECURSIVE ApplyRulesReversed(_, _)
ApplyRulesReversed(str, rules) ==
  IF rules = <<>> THEN str
  ELSE ReplaceWord(ApplyRulesReversed(str, Tail(rules)), Head(rules).word, Head(rules).alias)

\* pronunciationRules.forEach(r => ruleAppliedText = ruleAppliedText.replace(...))
RECURSIVE ApplyRules(_, _)
ApplyRules(str, rules) ==
  IF rules = <<>> THEN str
  ELSE ApplyRules(ReplaceWord(str, Head(rules).word, Head(rules).alias), Tail(rules))

\* ------------------------------------------------------------ markup
SpeakOpen == <<"<", "s", "p", "e", "a", "k", ">">>
SpeakClose == <<"<", "/", "s", "p", "e", "a", "k", ">">>

StartsWith(str, prefix) ==
  Len(prefix) <= Len(str) /\ SubSeq(str, 1, Len(prefix)) = prefix

EndsWith(str, suffix) ==
  Len(suffix) <= Len(str) /\ SubSeq(str, Len(str) - Len(suffix) + 1, Len(str)) = suffix

Includes(str, part) ==
  \E p \in 0..(Len(str) - Len(part)) : Substring(str, p, p + Len(part)) = part

\* chunkToSynthesize (lines 546-550)
Rewrap(chunk, ssml) ==
  LET opened == IF ssml /\ ~StartsWith(chunk, SpeakOpen) THEN SpeakOpen \o chunk ELSE chunk
  IN  IF ssml /\ ~EndsWith(opened, SpeakClose) THEN opened \o SpeakClose ELSE opened

\* ------------------------------------------------ production run inputs
Word4 == <<"a", "b", "a", "b">>
Word9 == <<"a", "b", "a", "b", "a", "b", "a", "b", "a">>
Sp == <<" ">>

ScriptShort == <<"a", "b">>
ScriptTwo == Word4 \o Sp \o Word4 \o Sp \o Word4
ScriptFour == Word9 \o Sp \o Word9 \o Sp \o Word9 \o Sp \o Word9
ScriptSsml == SpeakOpen \o <<"a", "b", " ", "A", "B">> \o SpeakClose
ScriptBlank == [k \in 1..12 |-> " "]

\* A markup token with a space inside it, as <break time="1.5s"/> and
\* [Instruction: ...] of the demo script (lines 181-248) have
BreakTag == <<"<", "b", " ", "t", ">">>
ScriptTagged == Word4 \o Sp \o <<"a", "b">> \o Sp \o BreakTag \o Sp \o <<"a", "b">>
\* A script with the opening tag after some text and no closing tag
ScriptInnerSpeak == <<"a", " ">> \o SpeakOpen
ScriptEmpty == <<>>

\* The scripts the operator may have typed.
Scripts ==
  {ScriptEmpty, ScriptShort, ScriptTwo, ScriptFour, ScriptSsml, ScriptBlank, ScriptTagged,
   ScriptInnerSpeak}

Languages == {"English (US)", "French (FR)"}

\* narrationProvider: the four Gemini tiers differ only in the model name they
\* send, so one of them stands for the four.
Providers == {"gemini-2.5-tts", "elevenlabs", "resemble"}

RuleSets == {<<>>, <<[word |-> <<"a", "b">>, alias |-> <<"b", "a">>]>>}

\* transResponse.text: nothing usable, or a translated script
TranslationTexts == {<<>>, ScriptTwo}

Null == [kind |-> "null"]

\* new Error(`Sequence ${i+1} Failed: ${chunkErr.message}`), line 599
SequenceErrorOffByOne(idx, msg) == [kind |-> "sequence", index |-> idx, message |-> msg]

SequenceError(idx, msg) == [kind |-> "sequence", index |-> idx + 1, message |-> msg]

PlainError(msg) == [kind |-> "plain", message |-> msg]

\* lines 602-604: the master artifact
Artifact(parts, provider) ==
  [kind |-> IF provider \in {"elevenlabs", "resemble"} THEN "audio/mpeg" ELSE "audio/wav",
   parts |-> parts]

\* ------------------------------------------------------------------ state
VARIABLES
  \* one call of splitTextIntoChunks, statement by statement
  text, maxChars, currentPos, chunks, result, cpc,
  \* the narration studio's React state, as one run of generateNarration
  \* captured it
  narrationText, narrationLanguage, narrationProvider, pronunciationRules,
  isGenerating, generationStatus, error, audioUrl,
  \* generateNarration's locals and the await it is suspended at
  ruleAppliedText, isSsml, runChunks, i, audioParts, npc,
  \* the request awaiting its answer, the chunks dispatched in this run in
  \* dispatch order, the chunk whose synthesis failed (0: none) with the
  \* adapter's error, and the runs started
  inFlight, dispatched, failedChunk, failedMessage, runs,
  \* the live chat's React state and refs (lines 252-253, 282-290)
  isSessionActive, transcript,
  sessionRef, inputAudioContextRef, outputAudioContextRef, streamRef,
  scriptProcessorRef, sourcesRef, nextStartTimeRef,
  currentInputTranscriptionRef, currentOutputTranscriptionRef,
  \* the objects the sessions created, by session number: the channel, the
  \* microphone request and stream, the capture processor, the two audio
  \* contexts; the sessions started; the audio clock
  session, nSessions, now,
  \* the message handlers suspended in decodeAudioData, every buffer source
  \* created so far in scheduling order, the messages received
  decoding, sources, msgs,
  \* per session: the phase (Connecting, microphone pending, Streaming) in
  \* which stopSession first ran during it, and the TypeError one of its
  \* callbacks ended with on a null ref
  stoppedIn, threw,
  \* the microphone samples of the last onaudioprocess event, as numerators
  \* over SampleScale, and the 16-bit values of the frame made of them
  input, pcmBlob

chunkVars == <<text, maxChars, currentPos, chunks, result, cpc>>

narrSettings == <<narrationText, narrationLanguage, narrationProvider, pronunciationRules>>

\* generateNarration's state but for the error banner, which the live chat
\* sets too (line 254)
narrOwnVars ==
  <<narrSettings, isGenerating, generationStatus, audioUrl,
    ruleAppliedText, isSsml, runChunks, i, audioParts, npc,
    inFlight, dispatched, failedChunk, failedMessage, runs>>

narrVars == <<narrOwnVars, error>>

liveRefs ==
  <<sessionRef, inputAudioContextRef, outputAudioContextRef, streamRef,
    scriptProcessorRef, sourcesRef>>

micVars == <<input, pcmBlob>>

liveVars ==
  <<isSessionActive, transcript, liveRefs, nextStartTimeRef,
    currentInputTranscriptionRef, currentOutputTranscriptionRef,
    session, nSessions, now, decoding, sources, msgs, stoppedIn, threw, micVars>>

vars == <<chunkVars, narrVars, liveVars>>

Sessions == 1..MaxSessions

\* A session that startSession has not created yet.
NoSession ==
  [channel |-> "none", micRequest |-> "none", micLive |-> FALSE,
   processor |-> "none", inputCtx |-> "none", outputCtx |-> "none", created |-> 0]

\* lines 252-253, 282-290: the live chat before any session
LiveInit ==
  /\ isSessionActive = FALSE
  /\ transcript = <<>>
  /\ sessionRef = 0
  /\ inputAudioContextRef = 0
  /\ outputAudioContextRef = 0
  /\ streamRef = 0
  /\ scriptProcessorRef = 0
  /\ sourcesRef = {}
  /\ nextStartTimeRef = 0
  /\ currentInputTranscriptionRef = 0
  /\ currentOutputTranscriptionRef = 0
  /\ session = [k \in Sessions |-> NoSession]
  /\ nSessions = 0
  /\ now = 0
  /\ decoding = <<>>
  /\ sources = <<>>
  /\ msgs = 0
  /\ stoppedIn = [k \in Sessions |-> "none"]
  /\ threw = [k \in Sessions |-> "none"]
  /\ input = <<>>
  /\ pcmBlob = <<>>

\* The chunker is not being stepped.
ChunkIdle ==
  /\ text = <<>>
  /\ maxChars = 1
  /\ currentPos = 0
  /\ chunks = <<>>
  /\ result = <<>>
  /\ cpc = "call"

\* lines 272-279: the narration studio before any run
NarrInit ==
  /\ narrationText = ScriptSsml
  /\ narrationLanguage = "English (US)"
  /\ narrationProvider = "gemini-2.5-tts"
  /\ pronunciationRules = <<>>
  /\ isGenerating = FALSE
  /\ generationStatus = [phase |-> "none"]
  /\ error = Null
  /\ audioUrl = Null
  /\ ruleAppliedText = <<>>
  /\ isSsml = FALSE
  /\ runChunks = <<>>
  /\ i = 0
  /\ audioParts = <<>>
  /\ npc = "idle"
  /\ inFlight = Null
  /\ dispatched = <<>>
  /\ failedChunk = 0
  /\ failedMessage = ""
  /\ runs = 0

\* --------------------------------------------- the chunker, step by step
ChunkInit ==
  /\ NarrInit
  /\ LiveInit
  /\ text \in Texts
  /\ maxChars \in 1..MaxChars
  /\ currentPos = 0
  /\ chunks = <<>>
  /\ result = <<>>
  /\ cpc = "call"

\* line 116: the short-text return, or entry into the loop
SplitEnter ==
  /\ cpc = "call"
  /\ IF Len(text) <= maxChars
     THEN /\ result' = ShortResult(text)
          /\ cpc' = "returned"
     ELSE /\ result' = result
          /\ cpc' = "loop"
  /\ UNCHANGED <<text, maxChars, currentPos, chunks, narrVars, liveVars>>

\* lines 119-130: one iteration of the while loop
SplitIterate ==
  /\ cpc = "loop"
  /\ currentPos < Len(text)
  /\ LET endPos == EndPosFor(text, maxChars, currentPos)
     IN  /\ chunks' = Append(chunks, Piece(text, currentPos, endPos))
         /\ currentPos' = endPos
  /\ UNCHANGED <<text, maxChars, result, cpc, narrVars, liveVars>>

\* line 131: the loop has ended; the empty pieces are dropped
SplitReturn ==
  /\ cpc = "loop"
  /\ currentPos >= Len(text)
  /\ result' = FilterNonEmpty(chunks)
  /\ cpc' = "returned"
  /\ UNCHANGED <<text, maxChars, currentPos, chunks, narrVars, liveVars>>

ChunkNext == SplitEnter \/ SplitIterate \/ SplitReturn

SpecChunk == ChunkInit /\ [][ChunkNext]_vars

\* The call runs on: the interpreter executes the next statement.
SpecChunkLive == ChunkInit /\ [][ChunkNext]_vars /\ WF_vars(ChunkNext)

\* ------------------------------------------------------ generateNarration
\* The for loop at index idx with the parts accumulated so far (lines
\* 543-550, up to the provider request's await), or, past the last chunk, the
\* concatenation and the finally block (lines 602-605).
LoopAtKeepingBusy(cs, idx, parts) ==
  IF idx < Len(cs)
  THEN /\ generationStatus' = [phase |-> "synthesizing", index |-> idx + 1, of |-> Len(cs)]
       /\ i' = idx
       /\ audioParts' = parts
       /\ inFlight' = [kind |-> "synthesize", chunk |-> idx + 1,
                       text |-> Rewrap(cs[idx + 1], isSsml')]
       /\ dispatched' = Append(dispatched, idx + 1)
       /\ npc' = "synthesize"
       /\ UNCHANGED <<audioUrl, error, isGenerating, failedChunk, failedMessage>>
  ELSE /\ audioUrl' = Artifact(parts, narrationProvider')
       /\ isGenerating' = isGenerating
       /\ i' = idx
       /\ audioParts' = parts
       /\ inFlight' = Null
       /\ npc' = "idle"
       /\ UNCHANGED <<generationStatus, error, dispatched, failedChunk, failedMessage>>

LoopAt(cs, idx, parts) ==
  IF idx < Len(cs)
  THEN /\ generationStatus' = [phase |-> "synthesizing", index |-> idx + 1, of |-> Len(cs)]
       /\ i' = idx
       /\ audioParts' = parts
       /\ inFlight' = [kind |-> "synthesize", chunk |-> idx + 1,
                       text |-> Rewrap(cs[idx + 1], isSsml')]
       /\ dispatched' = Append(dispatched, idx + 1)
       /\ npc' = "synthesize"
       /\ UNCHANGED <<audioUrl, error, isGenerating, failedChunk, failedMessage>>
  ELSE /\ audioUrl' = Artifact(parts, narrationProvider')
       /\ isGenerating' = FALSE
       /\ i' = idx
       /\ audioParts' = parts
       /\ inFlight' = Null
       /\ npc' = "idle"
       /\ UNCHANGED <<generationStatus, error, dispatched, failedChunk, failedMessage>>

\* A chunk's request threw: the inner catch rethrows with the index (line
\* 599), the outer catch sets the error and finally clears the busy flag
\* (line 605).
ChunkFailedButContinues(msg) ==
  /\ failedChunk' = inFlight.chunk
  /\ failedMessage' = msg
  /\ error' = SequenceError(i, msg)
  /\ inFlight' = Null
  /\ npc' = "pause"
  /\ UNCHANGED <<narrSettings, isGenerating, generationStatus, audioUrl,
                 ruleAppliedText, isSsml, runChunks, i, audioParts, dispatched, runs>>

ChunkFailed(msg) ==
  /\ failedChunk' = inFlight.chunk
  /\ failedMessage' = msg
  /\ error' = SequenceError(i, msg)
  /\ isGenerating' = FALSE
  /\ inFlight' = Null
  /\ npc' = "idle"
  /\ UNCHANGED <<narrSettings, generationStatus, audioUrl,
                 ruleAppliedText, isSsml, runChunks, i, audioParts, dispatched, runs>>

\* A chunk's audio was pushed (or, for Gemini, skipped): the pause's await,
\* line 598.
ChunkDone(parts) ==
  /\ audioParts' = parts
  /\ inFlight' = Null
  /\ npc' = "pause"
  /\ UNCHANGED <<narrSettings, isGenerating, generationStatus, error, audioUrl,
                 ruleAppliedText, isSsml, runChunks, i, dispatched,
                 failedChunk, failedMessage, runs>>

\* A request that carries the script's first chunk only.
TranslationRequestPerChunk(str) ==
  LET cs == splitTextIntoChunks(str, NarrMaxChars)
  IN  [kind |-> "translate", text |-> IF cs = <<>> THEN str ELSE cs[1]]

\* lines 532-536: the translation request, its contents built from the
\* whole ruleAppliedText
TranslationRequest(str) == [kind |-> "translate", text |-> str]

\* line 775: the "Start Production Sequence" button is disabled while
\* isGenerating and on an empty script
StartAlwaysEnabled(script) == TRUE

StartEnabled(script) == ~isGenerating /\ script # <<>>

\* The "Start Production Sequence" button runs generateNarration up to its first
\* await: lines 523-533, or 523-550 when no translation is asked for.
StartProduction(script, language, provider, rules) ==
  /\ StartEnabled(script)
  /\ runs < MaxRuns
  /\ runs' = runs + 1
  /\ narrationText' = script
  /\ narrationLanguage' = language
  /\ narrationProvider' = provider
  /\ pronunciationRules' = rules
  /\ ruleAppliedText' = ApplyRules(script, rules)
  /\ isSsml' = Includes(ruleAppliedText', SpeakOpen)
  /\ IF language # "English (US)"
     THEN /\ isGenerating' = TRUE
          /\ error' = Null
          /\ audioUrl' = Null
          /\ generationStatus' = [phase |-> "translating"]
          /\ inFlight' = TranslationRequest(ruleAppliedText')
          /\ npc' = "translate"
          /\ runChunks' = <<>>
          /\ i' = 0
          /\ audioParts' = <<>>
          /\ dispatched' = <<>>
          /\ failedChunk' = 0
          /\ failedMessage' = ""
     ELSE /\ runChunks' = splitTextIntoChunks(ruleAppliedText', NarrMaxChars)
          /\ IF Len(runChunks') > 0
             THEN /\ isGenerating' = TRUE
                  /\ error' = Null
                  /\ audioUrl' = Null
                  /\ generationStatus' = [phase |-> "synthesizing", index |-> 1, of |-> Len(runChunks')]
                  /\ i' = 0
                  /\ audioParts' = <<>>
                  /\ inFlight' = [kind |-> "synthesize", chunk |-> 1,
                                  text |-> Rewrap(runChunks'[1], isSsml')]
                  /\ dispatched' = <<1>>
                  /\ npc' = "synthesize"
                  /\ failedChunk' = 0
                  /\ failedMessage' = ""
             ELSE \* no chunk at all: the run goes through to line 604 at once
                  /\ isGenerating' = FALSE
                  /\ error' = Null
                  /\ audioUrl' = Artifact(<<>>, provider)
                  /\ generationStatus' = [phase |-> "calibrating"]
                  /\ i' = 0
                  /\ audioParts' = <<>>
                  /\ inFlight' = Null
                  /\ dispatched' = <<>>
                  /\ npc' = "idle"
                  /\ failedChunk' = 0
                  /\ failedMessage' = ""
  /\ UNCHANGED <<chunkVars, liveVars>>

\* line 537: the translation request returned; lines 540-550
TranslationReturns(translated) ==
  /\ npc = "translate"
  /\ LET chosen == IF translated # <<>> THEN translated ELSE ruleAppliedText
         cs     == splitTextIntoChunks(chosen, NarrMaxChars)
     IN  /\ ruleAppliedText' = chosen
         /\ runChunks' = cs
         /\ UNCHANGED <<chunkVars, liveVars, narrSettings, isSsml, runs>>
         /\ LoopAt(cs, 0, <<>>)

\* line 533: the translation request rejected; the await is inside the outer
\* try only, so line 605 ends the run
TranslationRejects ==
  /\ npc = "translate"
  /\ error' = PlainError("translation failed")
  /\ isGenerating' = FALSE
  /\ inFlight' = Null
  /\ npc' = "idle"
  /\ UNCHANGED <<chunkVars, liveVars, narrSettings, generationStatus, audioUrl, ruleAppliedText,
                 isSsml, runChunks, i, audioParts, dispatched, failedChunk,
                 failedMessage, runs>>

\* lines 554, 562, 580: the provider request itself rejected (no connection,
\* an API error)
ProviderRejects ==
  /\ npc = "synthesize"
  /\ ChunkFailed("request rejected")
  /\ UNCHANGED <<chunkVars, liveVars>>

\* lines 559, 567: a clone service answered with a non-success status
HttpNotOk ==
  /\ npc = "synthesize"
  /\ narrationProvider \in {"elevenlabs", "resemble"}
  /\ ChunkFailed(IF narrationProvider = "elevenlabs"
                 THEN "ElevenLabs API Failed." ELSE "Resemble AI API error.")
  /\ UNCHANGED <<chunkVars, liveVars>>

\* line 560: ElevenLabs answered with the audio
ElevenLabsAudio ==
  /\ npc = "synthesize"
  /\ narrationProvider = "elevenlabs"
  /\ ChunkDone(Append(audioParts, inFlight.chunk))
  /\ UNCHANGED <<chunkVars, liveVars>>

\* lines 568-569: Resemble created the clip; its audio is fetched
ResembleClipCreated ==
  /\ npc = "synthesize"
  /\ narrationProvider = "resemble"
  /\ inFlight' = [inFlight EXCEPT !.kind = "fetchClip"]
  /\ npc' = "fetchClip"
  /\ UNCHANGED <<chunkVars, liveVars, narrSettings, isGenerating, generationStatus, error, audioUrl,
                 ruleAppliedText, isSsml, runChunks, i, audioParts, dispatched,
                 failedChunk, failedMessage, runs>>

\* line 570: the clip's bytes arrived (the status of this answer is not looked at)
ResembleAudioFetched ==
  /\ npc = "fetchClip"
  /\ ChunkDone(Append(audioParts, inFlight.chunk))
  /\ UNCHANGED <<chunkVars, liveVars>>

\* line 569: the fetch of the clip rejected
ResembleFetchRejects ==
  /\ npc = "fetchClip"
  /\ ChunkFailed("request rejected")
  /\ UNCHANGED <<chunkVars, liveVars>>

\* lines 589-596: Gemini answered; the first inline audio part, when there is
\* one, is decoded and pushed
GeminiResponds(hasAudio) ==
  /\ npc = "synthesize"
  /\ narrationProvider = "gemini-2.5-tts"
  /\ ChunkDone(IF hasAudio THEN Append(audioParts, inFlight.chunk) ELSE audioParts)
  /\ UNCHANGED <<chunkVars, liveVars>>

\* line 598: the 100 ms pause is over; the next iteration, or lines 602-605
PauseElapsed ==
  /\ npc = "pause"
  /\ UNCHANGED <<chunkVars, liveVars, narrSettings, ruleAppliedText, isSsml, runChunks, runs>>
  /\ LoopAt(runChunks, i + 1, audioParts)

NarrNext ==
  \/ \E script \in Scripts, language \in Languages, provider \in Providers, rules \in RuleSets :
       StartProduction(script, language, provider, rules)
  \/ \E translated \in TranslationTexts : TranslationReturns(translated)
  \/ TranslationRejects
  \/ ProviderRejects
  \/ HttpNotOk
  \/ ElevenLabsAudio
  \/ ResembleClipCreated
  \/ ResembleAudioFetched
  \/ ResembleFetchRejects
  \/ \E hasAudio \in BOOLEAN : GeminiResponds(hasAudio)
  \/ PauseElapsed

InitNarr == ChunkIdle /\ NarrInit /\ LiveInit

SpecNarr == InitNarr /\ [][NarrNext]_vars

\* The ends of a run's awaits. In every state in which the run is suspended
\* one of these is enabled, and any step that ends the await, an answer as
\* much as a rejection, disables it: weak fairness on Settled says exactly
\* that no await stays pending for ever. (A translation's answer is enabled
\* in the same states as its rejection.)
Settled ==
  \/ TranslationRejects
  \/ ProviderRejects
  \/ HttpNotOk
  \/ ElevenLabsAudio
  \/ ResembleClipCreated
  \/ ResembleAudioFetched
  \/ ResembleFetchRejects
  \/ GeminiResponds(TRUE)
  \/ GeminiResponds(FALSE)
  \/ PauseElapsed

\* A run in progress goes on: every request is eventually answered or
\* rejected and the timer fires.
SpecNarrLive == InitNarr /\ [][NarrNext]_vars /\ WF_vars(Settled)

\* ------------------------------------------- runs over the rule lists
\* The scripts and the rules the operator may have saved before a run: every
\* script of up to RuleLen characters, and the rule lists of up to two rules.
\* The modal keeps a rule when word and alias are non-empty after trim()
\* (src/unnamed/part_002, lines 22-27); a word may hold punctuation.
RuleAlphabet == {"a", "b", "B", " ", "."}

RECURSIVE RuleSeqsUpTo(_)
RuleSeqsUpTo(n) ==
  IF n = 0 THEN {<<>>}
  ELSE LET shorter == RuleSeqsUpTo(n - 1)
       IN  shorter \cup {Append(s, c) : s \in {t \in shorter : Len(t) = n - 1},
                                        c \in RuleAlphabet}

RuleTexts == RuleSeqsUpTo(RuleLen)

RuleAtoB == [word |-> <<"a">>, alias |-> <<"b">>]
RuleBtoC == [word |-> <<"b">>, alias |-> <<"a", "b">>]
RuleWord == [word |-> <<"a", "b">>, alias |-> <<"b">>]
RuleDotted == [word |-> <<"b", ".">>, alias |-> <<"a">>]

RulePool == {RuleAtoB, RuleBtoC, RuleWord, RuleDotted}

RuleLists ==
  {<<>>} \cup {<<r>> : r \in RulePool}
         \cup {pair \in {<<r, q>> : r \in RulePool, q \in RulePool} : pair[1] # pair[2]}

\* The studio with a script typed and a rule list saved, before any run
RulesInit ==
  /\ ChunkIdle
  /\ LiveInit
  /\ narrationText \in RuleTexts
  /\ narrationLanguage \in Languages
  /\ narrationProvider = "gemini-2.5-tts"
  /\ pronunciationRules \in RuleLists
  /\ isGenerating = FALSE
  /\ generationStatus = [phase |-> "none"]
  /\ error = Null
  /\ audioUrl = Null
  /\ ruleAppliedText = <<>>
  /\ isSsml = FALSE
  /\ runChunks = <<>>
  /\ i = 0
  /\ audioParts = <<>>
  /\ npc = "idle"
  /\ inFlight = Null
  /\ dispatched = <<>>
  /\ failedChunk = 0
  /\ failedMessage = ""
  /\ runs = 0

\* The button is pressed on the studio as it stands.
StartAsConfigured ==
  StartProduction(narrationText, narrationLanguage, narrationProvider, pronunciationRules)

RulesNext ==
  \/ StartAsConfigured
  \/ \E translated \in TranslationTexts : TranslationReturns(translated)
  \/ TranslationRejects
  \/ ProviderRejects
  \/ \E hasAudio \in BOOLEAN : GeminiResponds(hasAudio)
  \/ PauseElapsed

SpecRules == RulesInit /\ [][RulesNext]_vars

\* ---------------------------------------------------------- live session
\* A server message, by the parts the handler looks at (lines 470, 483, 496,
\* 501); audio is the decoded buffer's duration, 0 when the message carries
\* no inline audio.
Messages ==
  {m \in [inputTranscription : BOOLEAN, outputTranscription : BOOLEAN,
          turnComplete : BOOLEAN, audio : 0..MaxDur] :
     m.inputTranscription \/ m.outputTranscription \/ m.turnComplete \/ m.audio > 0}

\* Where session k stands: Connecting, Open with the microphone asked for,
\* Streaming.
Phase(k) ==
  IF session[k].channel = "connecting" THEN "connecting"
  ELSE IF session[k].channel = "open" /\ session[k].micRequest = "pending" THEN "micPending"
  ELSE IF session[k].channel = "open" /\ session[k].processor = "connected" THEN "streaming"
  ELSE "other"

\* ctx.currentTime of the output context session k created
CurrentTime(k) == now - session[k].created

\* line 507
StartTimeIgnoringCursor(clock, cursor) == clock

StartTime(clock, cursor) == Max(clock, cursor)

\* line 509
NextCursorFromZero(startTime, duration) == duration

NextCursor(startTime, duration) == startTime + duration

\* lines 474-480, 487-493: the setTranscript updater for one fragment; a
\* line's text is the number of fragments accumulated in it
WithFragment(lines, speaker, accumulated) ==
  IF Len(lines) > 0 /\ lines[Len(lines)].speaker = speaker /\ ~lines[Len(lines)].isFinal
  THEN [lines EXCEPT ![Len(lines)].text = accumulated]
  ELSE Append(lines, [speaker |-> speaker, text |-> accumulated, isFinal |-> FALSE])

\* lines 431, 497
AllFinal(lines) == [n \in 1..Len(lines) |-> [lines[n] EXCEPT !.isFinal = TRUE]]

\* lines 423-427: what stopSession does to the objects the refs point to
StoppedSessionsKeepingMicrophone(sess) ==
  [k \in Sessions |->
     [sess[k] EXCEPT
        !.channel = IF k = sessionRef /\ @ = "open" THEN "closing" ELSE @,
        !.processor = IF k = scriptProcessorRef THEN "disconnected" ELSE @,
        !.inputCtx = IF k = inputAudioContextRef THEN "closed" ELSE @,
        !.outputCtx = IF k = outputAudioContextRef THEN "closed" ELSE @]]

StoppedSessions(sess) ==
  [k \in Sessions |->
     [sess[k] EXCEPT
        !.channel = IF k = sessionRef /\ @ = "open" THEN "closing" ELSE @,
        !.micLive = IF k = streamRef THEN FALSE ELSE @,
        !.processor = IF k = scriptProcessorRef THEN "disconnected" ELSE @,
        !.inputCtx = IF k = inputAudioContextRef THEN "closed" ELSE @,
        !.outputCtx = IF k = outputAudioContextRef THEN "closed" ELSE @]]

\* lines 422-432: stopSession, on the objects sess
StopSessionOn(sess) ==
  /\ session' = StoppedSessions(sess)
  /\ sources' = [n \in 1..Len(sources) |->
                   IF outputAudioContextRef # 0 /\ n \in sourcesRef
                   THEN [sources[n] EXCEPT !.status = "stopped"]
                   ELSE sources[n]]
  /\ sourcesRef' = IF outputAudioContextRef # 0 THEN {} ELSE sourcesRef
  /\ sessionRef' = 0
  /\ streamRef' = 0
  /\ scriptProcessorRef' = 0
  /\ inputAudioContextRef' = 0
  /\ outputAudioContextRef' = 0
  /\ isSessionActive' = FALSE
  /\ currentInputTranscriptionRef' = 0
  /\ currentOutputTranscriptionRef' = 0
  /\ transcript' = AllFinal(transcript)
  /\ stoppedIn' = IF nSessions > 0 /\ stoppedIn[nSessions] = "none"
                     /\ Phase(nSessions) # "other"
                  THEN [stoppedIn EXCEPT ![nSessions] = Phase(nSessions)]
                  ELSE stoppedIn

\* lines 434-447: the "Initialize Sync" button (line 699: shown while no
\* session is active) runs startSession up to the await of ai.live.connect
StartSession ==
  /\ ~isSessionActive
  /\ nSessions < MaxSessions
  /\ nSessions' = nSessions + 1
  /\ error' = Null
  /\ isSessionActive' = TRUE
  /\ inputAudioContextRef' = nSessions'
  /\ outputAudioContextRef' = nSessions'
  /\ nextStartTimeRef' = 0
  /\ session' = [session EXCEPT ![nSessions'] =
                   [NoSession EXCEPT !.channel = "connecting", !.inputCtx = "running",
                                     !.outputCtx = "running", !.created = now]]
  /\ UNCHANGED <<chunkVars, micVars, narrOwnVars, transcript, sessionRef, streamRef,
                 scriptProcessorRef, sourcesRef, currentInputTranscriptionRef,
                 currentOutputTranscriptionRef, now, decoding, sources, msgs,
                 stoppedIn, threw>>

\* line 519: ai.live.connect rejected
ConnectRejects(k) ==
  /\ session[k].channel = "connecting"
  /\ session' = [session EXCEPT ![k].channel = "failed"]
  /\ error' = PlainError("connect failed")
  /\ isSessionActive' = FALSE
  /\ UNCHANGED <<chunkVars, micVars, narrOwnVars, transcript, liveRefs, nextStartTimeRef,
                 currentInputTranscriptionRef, currentOutputTranscriptionRef,
                 nSessions, now, decoding, sources, msgs, stoppedIn, threw>>

\* The channel opened: onopen runs up to the await of getUserMedia (line 458)
\* and ai.live.connect resolves (line 518).
ChannelOpens(k) ==
  /\ session[k].channel = "connecting"
  /\ session' = [session EXCEPT ![k].channel = "open", ![k].micRequest = "pending"]
  /\ sessionRef' = k
  /\ UNCHANGED <<chunkVars, micVars, narrVars, isSessionActive, transcript, inputAudioContextRef,
                 outputAudioContextRef, streamRef, scriptProcessorRef, sourcesRef,
                 nextStartTimeRef, currentInputTranscriptionRef,
                 currentOutputTranscriptionRef, nSessions, now, decoding, sources,
                 msgs, stoppedIn, threw>>

\* lines 458-467: the microphone was granted; the rest of onopen
MicGranted(k) ==
  /\ session[k].micRequest = "pending"
  /\ streamRef' = k
  /\ IF inputAudioContextRef = 0
     THEN \* line 459: TypeError, inputAudioContextRef.current is null
          /\ session' = [session EXCEPT ![k].micRequest = "granted", ![k].micLive = TRUE]
          /\ threw' = [threw EXCEPT ![k] = "TypeError"]
          /\ UNCHANGED scriptProcessorRef
     ELSE /\ session' = [session EXCEPT ![k].micRequest = "granted", ![k].micLive = TRUE,
                                        ![k].processor = "connected"]
          /\ scriptProcessorRef' = k
          /\ UNCHANGED threw
  /\ UNCHANGED <<chunkVars, micVars, narrVars, isSessionActive, transcript, sessionRef,
                 inputAudioContextRef, outputAudioContextRef, sourcesRef,
                 nextStartTimeRef, currentInputTranscriptionRef,
                 currentOutputTranscriptionRef, nSessions, now, decoding, sources,
                 msgs, stoppedIn>>

\* line 458: the microphone was refused; onopen ends with the rejection
MicDenied(k) ==
  /\ session[k].micRequest = "pending"
  /\ session' = [session EXCEPT ![k].micRequest = "denied"]
  /\ UNCHANGED <<chunkVars, micVars, narrVars, isSessionActive, transcript, liveRefs,
                 nextStartTimeRef, currentInputTranscriptionRef,
                 currentOutputTranscriptionRef, nSessions, now, decoding, sources,
                 msgs, stoppedIn, threw>>

\* lines 469-503: a server message on session k's channel, up to the await of
\* decodeAudioData; limit bounds the messages received
OnMessageUpTo(k, m, limit) ==
  /\ session[k].channel = "open"
  /\ msgs < limit
  /\ msgs' = msgs + 1
  /\ LET inAcc  == IF m.inputTranscription THEN currentInputTranscriptionRef + 1
                   ELSE currentInputTranscriptionRef
         outAcc == IF m.outputTranscription THEN currentOutputTranscriptionRef + 1
                   ELSE currentOutputTranscriptionRef
         afterIn  == IF m.inputTranscription THEN WithFragment(transcript, "user", inAcc)
                     ELSE transcript
         afterOut == IF m.outputTranscription THEN WithFragment(afterIn, "model", outAcc)
                     ELSE afterIn
     IN  /\ transcript' = IF m.turnComplete THEN AllFinal(afterOut) ELSE afterOut
         /\ currentInputTranscriptionRef' = IF m.turnComplete THEN 0 ELSE inAcc
         /\ currentOutputTranscriptionRef' = IF m.turnComplete THEN 0 ELSE outAcc
  /\ IF m.audio > 0
     THEN IF outputAudioContextRef = 0
          THEN \* line 503: the output context is null
               /\ threw' = [threw EXCEPT ![k] = "TypeError"]
               /\ UNCHANGED decoding
          ELSE /\ decoding' = Append(decoding, [session |-> k, duration |-> m.audio])
               /\ UNCHANGED threw
     ELSE UNCHANGED <<decoding, threw>>
  /\ UNCHANGED <<chunkVars, micVars, narrVars, isSessionActive, liveRefs, nextStartTimeRef,
                 session, nSessions, now, sources, stoppedIn>>

OnMessage(k, m) == OnMessageUpTo(k, m, MaxMsgs)

\* Any of the suspended handlers resumes next.
ResumableInAnyOrder(queue) == 1..Len(queue)

\* decodeAudioData (./utils/audio, line 73) is not among the sources. By the
\* codec's contract it is a pure function of the bytes and waits for nothing,
\* so the handlers suspended on it resume in the order they were suspended:
\* the places of queue that may resume next.
Resumable(queue) == IF queue = <<>> THEN {} ELSE {1}

\* lines 503-511: decodeAudioData returned to the handler at place p of the
\* suspended ones; the buffer is scheduled
DecodeDone(p) ==
  /\ p \in Resumable(decoding)
  /\ decoding' = [n \in 1..(Len(decoding) - 1) |->
                    IF n < p THEN decoding[n] ELSE decoding[n + 1]]
  /\ IF outputAudioContextRef = 0
     THEN \* line 504: the output context is null
          /\ threw' = [threw EXCEPT ![decoding[p].session] = "TypeError"]
          /\ UNCHANGED <<sources, sourcesRef, nextStartTimeRef>>
     ELSE LET startTime == StartTime(CurrentTime(outputAudioContextRef), nextStartTimeRef)
          IN  /\ sources' = Append(sources,
                   [ctx |-> outputAudioContextRef, at |-> CurrentTime(outputAudioContextRef),
                    waiting |-> Len(decoding) - 1,
                    start |-> startTime,
                    duration |-> decoding[p].duration, status |-> "scheduled"])
              /\ nextStartTimeRef' = NextCursor(startTime, decoding[p].duration)
              /\ sourcesRef' = sourcesRef \cup {Len(sources) + 1}
              /\ UNCHANGED threw
  /\ UNCHANGED <<chunkVars, micVars, narrVars, isSessionActive, transcript, sessionRef,
                 inputAudioContextRef, outputAudioContextRef, streamRef,
                 scriptProcessorRef, currentInputTranscriptionRef,
                 currentOutputTranscriptionRef, session, nSessions, now, msgs, stoppedIn>>

\* line 511: a source played to its end; onended takes it out of the set
SourceEnded(n) ==
  /\ n \in sourcesRef
  /\ sources[n].status = "scheduled"
  /\ CurrentTime(sources[n].ctx) >= sources[n].start + sources[n].duration
  /\ sources' = [sources EXCEPT ![n].status = "ended"]
  /\ sourcesRef' = sourcesRef \ {n}
  /\ UNCHANGED <<chunkVars, micVars, narrVars, isSessionActive, transcript, sessionRef,
                 inputAudioContextRef, outputAudioContextRef, streamRef,
                 scriptProcessorRef, nextStartTimeRef, currentInputTranscriptionRef,
                 currentOutputTranscriptionRef, session, nSessions, now, decoding,
                 msgs, stoppedIn, threw>>

\* A captured sample is the numerator n of n / SampleScale, from -1 to 1.
Samples == (0 - SampleScale)..SampleScale

Frames == [1..FrameLen -> Samples]

\* The quotient rounded towards zero, as the conversion of a number to an
\* integer type rounds it
TruncDiv(x, d) == IF x >= 0 THEN x \div d ELSE 0 - ((0 - x) \div d)

\* A conversion to 16 bits that clamps to the range.
ClampInt16(x) == IF x > 32767 THEN 32767 ELSE IF x < 0 - 32768 THEN 0 - 32768 ELSE x

\* line 463, new Int16Array(...): an element is converted modulo 2^16
ToInt16(x) == LET m == x % 65536 IN IF m >= 32768 THEN m - 65536 ELSE m

\* line 463: f => f * 32768, then the element's conversion
PcmOf(n) == ToInt16(TruncDiv(n * PcmScale, SampleScale))

\* lines 461-465: session k's capture processor delivers a buffer of samples
OnAudioProcess(k, frame) ==
  /\ session[k].processor = "connected"
  /\ input' = frame
  /\ pcmBlob' = [n \in 1..Len(frame) |-> PcmOf(frame[n])]
  /\ UNCHANGED <<chunkVars, narrVars, isSessionActive, transcript, liveRefs,
                 nextStartTimeRef, currentInputTranscriptionRef,
                 currentOutputTranscriptionRef, session, nSessions, now, decoding,
                 sources, msgs, stoppedIn, threw>>

\* The audio clock advances.
Tick(last) ==
  /\ now < last
  /\ now' = now + 1
  /\ UNCHANGED <<chunkVars, micVars, narrVars, isSessionActive, transcript, liveRefs,
                 nextStartTimeRef, currentInputTranscriptionRef,
                 currentOutputTranscriptionRef, session, nSessions, decoding,
                 sources, msgs, stoppedIn, threw>>

\* lines 662, 663, 699, 703: a button calls stopSession
StopSession ==
  /\ StopSessionOn(session)
  /\ UNCHANGED <<chunkVars, micVars, narrVars, nextStartTimeRef, nSessions, now, decoding,
                 msgs, threw>>

\* line 514: session k's channel reported an error; its close follows
ChannelError(k) ==
  /\ session[k].channel \in {"connecting", "open"}
  /\ error' = PlainError("Engine Exception")
  /\ StopSessionOn([session EXCEPT ![k].channel = "closing"])
  /\ UNCHANGED <<chunkVars, micVars, narrOwnVars, nextStartTimeRef, nSessions, now, decoding,
                 msgs, threw>>

\* line 515: session k's channel closed, by the server or after close()
ChannelCloses(k) ==
  /\ session[k].channel \in {"open", "closing"}
  /\ StopSessionOn([session EXCEPT ![k].channel = "closed"])
  /\ UNCHANGED <<chunkVars, micVars, narrVars, nextStartTimeRef, nSessions, now, decoding,
                 msgs, threw>>

\* line 697: the transcript is cleared
ClearTranscript ==
  /\ transcript # <<>>
  /\ transcript' = <<>>
  /\ UNCHANGED <<chunkVars, micVars, narrVars, isSessionActive, liveRefs, nextStartTimeRef,
                 currentInputTranscriptionRef, currentOutputTranscriptionRef,
                 session, nSessions, now, decoding, sources, msgs, stoppedIn, threw>>

\* The steps of the sessions, with the server's messages drawn from from and
\* the clock running up to last.
SessionStep(from, last) ==
  \/ StartSession
  \/ \E k \in Sessions : ConnectRejects(k)
  \/ \E k \in Sessions : ChannelOpens(k)
  \/ \E k \in Sessions : MicGranted(k)
  \/ \E k \in Sessions : MicDenied(k)
  \/ \E k \in Sessions, m \in from : OnMessage(k, m)
  \/ \E p \in 1..MaxMsgs : DecodeDone(p)
  \/ \E n \in 1..MaxMsgs : SourceEnded(n)
  \/ Tick(last)
  \/ StopSession
  \/ \E k \in Sessions : ChannelError(k)
  \/ \E k \in Sessions : ChannelCloses(k)

InitLive == ChunkIdle /\ NarrInit /\ LiveInit

\* The sessions' life cycle: the server sends a fragment of the model's
\* transcript together with a one-tick audio buffer.
LifecycleMessages ==
  {m \in Messages : ~m.inputTranscription /\ m.outputTranscription
                    /\ ~m.turnComplete /\ m.audio = 1}

LiveNext == SessionStep(LifecycleMessages, LiveClock) \/ ClearTranscript

SpecLive == InitLive /\ [][LiveNext]_vars

\* Playback scheduling: audio buffers of every duration up to MaxDur, without
\* transcript.
AudioMessages ==
  {m \in Messages : ~m.inputTranscription /\ ~m.outputTranscription
                    /\ ~m.turnComplete}

PlayNext == SessionStep(AudioMessages, MaxClock)

SpecPlay == InitLive /\ [][PlayNext]_vars

\* One session's inbound audio: up to SchedMsgs buffers on a clock that runs
\* up to SchedClock, with no teardown.
SchedNext ==
  \/ StartSession
  \/ \E k \in Sessions : ChannelOpens(k)
  \/ \E k \in Sessions, m \in AudioMessages : OnMessageUpTo(k, m, SchedMsgs)
  \/ \E p \in 1..SchedMsgs : DecodeDone(p)
  \/ Tick(SchedClock)

SpecSched == InitLive /\ [][SchedNext]_vars

\* The live transcript: messages that carry transcript fragments and
\* turn-complete signals, without audio.
TranscriptMessages == {m \in Messages : m.audio = 0}

TransNext ==
  \/ StartSession
  \/ \E k \in Sessions : ChannelOpens(k)
  \/ \E k \in Sessions, m \in TranscriptMessages : OnMessageUpTo(k, m, TransMsgs)
  \/ StopSession
  \/ ClearTranscript

SpecTrans == InitLive /\ [][TransNext]_vars

\* Microphone capture: the sessions from start to stop, with the capture
\* processor's events.
MicNext ==
  \/ StartSession
  \/ \E k \in Sessions : ChannelOpens(k)
  \/ \E k \in Sessions : MicGranted(k)
  \/ \E k \in Sessions, frame \in Frames : OnAudioProcess(k, frame)
  \/ StopSession

SpecMic == InitLive /\ [][MicNext]_vars

\* ----------------------------------------------------------------- claims

\* C1: for every text longer than maxChars, every returned chunk has length
\* at most maxChars and is not empty after trimming.
C1_ChunksBounded ==
  (cpc = "returned" /\ Len(text) > maxChars) =>
    \A n \in 1..Len(result) :
      /\ Len(result[n]) <= maxChars
      /\ Trim(result[n]) # <<>>

\* A long text has been split into several chunks, one of them cut short at
\* white space.
C1_Witness ==
  /\ cpc = "returned"
  /\ Len(text) > maxChars
  /\ Len(result) >= 2
  /\ \E n \in 1..Len(result) : Len(result[n]) < maxChars

\* C2: the chunks, concatenated in order and stripped of white space, are the
\* text stripped of white space.
C2_NoLoss ==
  cpc = "returned" => StripSpace(Concat(result)) = StripSpace(text)

\* A text was cut both at white space and in the middle of a word.
C2_Witness ==
  /\ cpc = "returned"
  /\ Len(result) >= 2
  /\ \E n \in 1..Len(text) : IsSpace(text[n])
  /\ \E n \in 1..(Len(text) - 1) : ~IsSpace(text[n]) /\ ~IsSpace(text[n + 1])
  /\ Len(StripSpace(text)) > maxChars

\* The sequence 1, 2, ..., n
UpTo(n) == [k \in 1..n |-> k]

\* C3: the chunks are dispatched in index order, one request at a time and
\* none twice; the request for chunk n+1 is issued only after the result of
\* chunk n has been appended to the accumulator; a run that succeeds has
\* accumulated the results of chunks 1..N in that order.
C3_SerialDispatch ==
  /\ dispatched = UpTo(Len(dispatched))
  /\ Len(dispatched) <= Len(runChunks)
  /\ npc \in {"synthesize", "fetchClip"} => inFlight.chunk = Len(dispatched)
  /\ \A n \in 2..Len(dispatched) :
       Len(audioParts) >= n - 1 /\ audioParts[n - 1] = n - 1
  /\ (runs > 0 /\ npc = "idle" /\ error = Null) =>
       audioUrl # Null /\ audioUrl.parts = UpTo(Len(runChunks))

\* C4: once the synthesis of chunk k has failed, no later chunk is dispatched
\* and the run has ended in Failed, with no artifact.
C4_FailFast ==
  failedChunk # 0 =>
    /\ npc = "idle"
    /\ ~isGenerating
    /\ error # Null
    /\ audioUrl = Null
    /\ inFlight = Null
    /\ \A n \in 1..Len(dispatched) : dispatched[n] <= failedChunk

\* A run failed on a chunk that was not the last one.
C4_Witness ==
  /\ failedChunk >= 2
  /\ failedChunk < Len(runChunks)
  /\ Len(audioParts) = failedChunk - 1
  /\ npc = "idle"

\* C5: when a run fails on chunk k, the error names k (1-based) and carries
\* the adapter's error, and no artifact is set.
C5_ErrorNamesChunk ==
  failedChunk # 0 =>
    /\ error = [kind |-> "sequence", index |-> failedChunk, message |-> failedMessage]
    /\ audioUrl = Null

\* Scenario D: the second run of the session fails on chunk 2 of 4.
C5_Witness ==
  /\ runs = 2
  /\ Len(runChunks) = 4
  /\ failedChunk = 2
  /\ error = [kind |-> "sequence", index |-> 2, message |-> "ElevenLabs API Failed."]

\* C6: within one session (one output context) the first buffer starts at
\* the clock time it is scheduled at; of two buffers scheduled one after the
\* other the second starts no earlier than the first's start plus its
\* duration, exactly at the first's end when it is scheduled before that end,
\* and at the clock time it is scheduled at otherwise; the cursor is the
\* last buffer's start plus its duration.
C6_Gapless ==
  /\ \A n \in 1..Len(sources) :
       IF n > 1 /\ sources[n - 1].ctx = sources[n].ctx
       THEN LET firstEnd == sources[n - 1].start + sources[n - 1].duration
            IN  /\ sources[n].start >= firstEnd
                /\ sources[n].at < firstEnd => sources[n].start = firstEnd
                /\ sources[n].at >= firstEnd => sources[n].start = sources[n].at
       ELSE sources[n].start = sources[n].at
  /\ (sources # <<>> /\ sources[Len(sources)].ctx = outputAudioContextRef) =>
       nextStartTimeRef = sources[Len(sources)].start + sources[Len(sources)].duration

\* A second buffer was scheduled while the first one was playing and starts
\* at the first's end.
C6_Witness ==
  \E n \in 2..Len(sources) :
    /\ sources[n - 1].ctx = sources[n].ctx
    /\ sources[n].at > sources[n - 1].start
    /\ sources[n].at < sources[n - 1].start + sources[n - 1].duration
    /\ sources[n].start = sources[n - 1].start + sources[n - 1].duration

\* C7: as long as no new session is started, no step makes the playback
\* cursor nextStartTimeRef smaller.
C7_CursorMonotonic ==
  [][nSessions' = nSessions => nextStartTimeRef' >= nextStartTimeRef]_vars

\* The cursor of the running session has been advanced by two buffers, the
\* second one scheduled after the clock had passed the first one's end.
C7_Witness ==
  /\ Len(sources) >= 2
  /\ outputAudioContextRef # 0
  /\ sources[Len(sources)].ctx = outputAudioContextRef
  /\ sources[Len(sources) - 1].ctx = outputAudioContextRef
  /\ sources[Len(sources)].at >
       sources[Len(sources) - 1].start + sources[Len(sources) - 1].duration
  /\ nextStartTimeRef = sources[Len(sources)].at + sources[Len(sources)].duration

\* C8: for a session during which stopSession ran while it was Connecting or
\* while its microphone request was pending, no callback of the session
\* throws, and once none of its callbacks is outstanding it holds no
\* resource: no open channel, no live microphone stream, no connected capture
\* processor, no running audio context.
C8_StopSafe ==
  \A k \in Sessions :
    stoppedIn[k] \in {"connecting", "micPending"} =>
      /\ threw[k] = "none"
      /\ ( /\ session[k].channel \notin {"connecting", "closing"}
           /\ session[k].micRequest # "pending"
           /\ \A p \in 1..Len(decoding) : decoding[p].session # k )
         => /\ session[k].channel # "open"
            /\ ~session[k].micLive
            /\ session[k].processor # "connected"
            /\ session[k].inputCtx # "running"
            /\ session[k].outputCtx # "running"

C10_CleanAfterFailure ==
  \A k \in Sessions :
    (session[k].channel = "failed" \/ session[k].micRequest = "denied") =>
      /\ ~(isSessionActive /\ nSessions = k)
      /\ session[k].inputCtx # "running"
      /\ session[k].outputCtx # "running"
      /\ session[k].channel # "open"

\* C11: a run that asked for a translation never ends because of the
\* translation: it ends with the artifact or with a chunk's error, and the
\* text it chunks is the translated text or, without a usable translation,
\* the untranslated rule-substituted text.
C11_TranslationAbsorbed ==
  (runs > 0 /\ narrationLanguage # "English (US)") =>
    /\ npc = "idle" => (audioUrl # Null \/ error.kind = "sequence")
    /\ npc \in {"synthesize", "fetchClip", "pause"} =>
         /\ runChunks = splitTextIntoChunks(ruleAppliedText, NarrMaxChars)
         /\ ruleAppliedText \in
              {ApplyRules(narrationText, pronunciationRules)} \cup (TranslationTexts \ {<<>>})

\* C12: a chunk whose request was answered has left its audio segment in the
\* accumulator (an answer without audio fails the run instead), so the
\* artifact of a run that reached Ready holds one segment per chunk.
C12_NoAudioFails ==
  /\ npc = "pause" => Len(audioParts) = i + 1
  /\ audioUrl # Null => Len(audioUrl.parts) = Len(runChunks)

C14_RunEnds ==
  isGenerating ~> (~isGenerating /\ npc = "idle" /\ (audioUrl # Null \/ error # Null))

\* A run that was translated and synthesized four chunks has ended Ready.
C14_Witness ==
  /\ ~isGenerating
  /\ npc = "idle"
  /\ narrationLanguage = "French (FR)"
  /\ audioUrl # Null
  /\ Len(runChunks) = 4
  /\ i = 4

\* C15: every iteration of the loop moves the scan position strictly
\* forward, and not past the end of the text; every call returns.
C15_Terminates ==
  /\ [][SplitIterate => (currentPos' > currentPos /\ currentPos' <= Len(text))]_vars
  /\ <>(cpc = "returned")

\* A call returned in which the first cut fell on a white-space character
\* that was the only one up to the next window's right edge, so that the
\* second iteration took the hard cut.
C15_Witness ==
  /\ cpc = "returned"
  /\ Len(result) >= 2
  /\ \E p \in 1..(Len(text) - 1) :
       /\ EndPosFor(text, maxChars, 0) = p
       /\ text[p + 1] \in {" ", "\n"}
       /\ p + maxChars < Len(text)
       /\ Max(LastIndexOf(text, " ", p + maxChars),
              LastIndexOf(text, "\n", p + maxChars)) = p
       /\ EndPosFor(text, maxChars, p) = p + maxChars

\* C16: in every chunk of a run every "<" is followed by its ">" and every
\* ">" preceded by its "<": no markup token lies across a cut.
C16_MarkupWhole ==
  \A n \in 1..Len(runChunks) :
    \A p \in 1..Len(runChunks[n]) :
      /\ runChunks[n][p] = "<" => \E q \in (p + 1)..Len(runChunks[n]) : runChunks[n][q] = ">"
      /\ runChunks[n][p] = ">" => \E q \in 1..(p - 1) : runChunks[n][q] = "<"

\* The number of places at which part occurs in str
Occurrences(str, part) ==
  Cardinality({p \in 0..(Len(str) - Len(part)) : Substring(str, p, p + Len(part)) = part})

\* C17: the text dispatched for a chunk of a script that begins with <speak>
\* and ends with </speak> starts with <speak>, ends with </speak> and holds
\* each of the two tags once; the text dispatched for a chunk of any other
\* script is the chunk.
C17_RewrapWhenWrapped ==
  inFlight.kind \in {"synthesize", "fetchClip"} =>
    IF StartsWith(narrationText, SpeakOpen) /\ EndsWith(narrationText, SpeakClose)
    THEN /\ StartsWith(inFlight.text, SpeakOpen)
         /\ EndsWith(inFlight.text, SpeakClose)
         /\ Occurrences(inFlight.text, SpeakOpen) = 1
         /\ Occurrences(inFlight.text, SpeakClose) = 1
    ELSE inFlight.text = runChunks[inFlight.chunk]

\* "Hello. " ten times, and its chunks under the limit 30: the scenario of
\* a thousand times under the limit 3000, at one hundredth of its size
Hello10 ==
  [k \in 1..70 |-> <<"H", "e", "l", "l", "o", ".", " ">>[((k - 1) % 7) + 1]]

HelloChunks == splitTextIntoChunks(Hello10, 30)

\* C18 (as the code has it): an iteration that cuts before the end of the text
\* cuts at the last space or newline among the positions after currentPos up
\* to and including the window's right edge currentPos + maxChars, and at that
\* edge when there is none; "Hello. " repeated to 7/3 of the limit gives three
\* chunks, none longer than the limit, each a run of whole words.
C18_CutAtLastWhitespace ==
  /\ Len(HelloChunks) = 3
  /\ \A n \in 1..Len(HelloChunks) :
       /\ Len(HelloChunks[n]) <= 30
       /\ HelloChunks[n][1] = "H"
       /\ HelloChunks[n][Len(HelloChunks[n])] = "."
  /\ [][ (SplitIterate /\ currentPos' < Len(text)) =>
           LET breaks == {p \in (currentPos + 1)..(currentPos + maxChars) :
                            text[p + 1] \in {" ", "\n"}}
           IN  IF breaks = {} THEN currentPos' = currentPos + maxChars
               ELSE currentPos' \in breaks /\ \A p \in breaks : p <= currentPos'
       ]_vars

\* The first cut was made at a space on the window's right edge although the
\* window held an earlier space.
C18_Witness ==
  /\ cpc = "loop"
  /\ Len(chunks) = 1
  /\ currentPos = maxChars
  /\ currentPos < Len(text)
  /\ text[currentPos + 1] = " "
  /\ \E p \in 1..(currentPos - 1) : text[p + 1] \in {" ", "\n"}

\* C18 (as stated): an iteration that cuts before the end of the text, with a
\* space or newline inside the window [currentPos, currentPos + maxChars) after
\* currentPos, cuts at the last of these.
C18_CutInsideWindow ==
  [][ (SplitIterate /\ currentPos' < Len(text)) =>
        LET inside == {p \in (currentPos + 1)..(currentPos + maxChars - 1) :
                         text[p + 1] \in {" ", "\n"}}
        IN  inside # {} => (currentPos' \in inside /\ \A p \in inside : p <= currentPos')
    ]_vars

\* C19: a text no longer than maxChars is returned as the one-element
\* sequence holding the text itself, white space at its ends included.
C19_ShortTextWhole ==
  (cpc = "returned" /\ Len(text) <= maxChars) => result = <<text>>

\* A short text that begins and ends with white space has been returned as it
\* was given.
C19_Witness ==
  /\ cpc = "returned"
  /\ Len(text) >= 2
  /\ Len(text) <= maxChars
  /\ text[1] = " "
  /\ text[Len(text)] = "\n"
  /\ result = <<text>>

\* C20: whatever the text, the empty text and the text of white space alone
\* included, every returned element is non-empty and stays non-empty when
\* trimmed.
C20_AllNonEmpty ==
  cpc = "returned" =>
    \A n \in 1..Len(result) : result[n] # <<>> /\ Trim(result[n]) # <<>>

\* C21: the rules are applied one after the other in list order, each on the
\* text the rules before it produced: no rule leaves the script as it is, one
\* rule is a single replacement, two rules are the second's replacement over
\* the first's.
C21_RulesInOrder ==
  (runs > 0 /\ (narrationLanguage = "English (US)" \/ npc = "translate")) =>
    /\ Len(pronunciationRules) = 0 => ruleAppliedText = narrationText
    /\ Len(pronunciationRules) = 1 =>
         ruleAppliedText = ReplaceWord(narrationText, pronunciationRules[1].word,
                                       pronunciationRules[1].alias)
    /\ Len(pronunciationRules) = 2 =>
         ruleAppliedText =
           ReplaceWord(ReplaceWord(narrationText, pronunciationRules[1].word,
                                   pronunciationRules[1].alias),
                       pronunciationRules[2].word, pronunciationRules[2].alias)

\* With the rules a -> b, b -> ab the word a has ended as ab.
C21_Witness ==
  /\ runs > 0
  /\ narrationLanguage = "English (US)"
  /\ pronunciationRules = <<RuleAtoB, RuleBtoC>>
  /\ narrationText = <<"a">>
  /\ ruleAppliedText = <<"a", "b">>

\* The word stands at 0-based position p of str as a whole word, in any
\* letter case: no word character before it and none after it.
WholeWordAt(str, word, p) ==
  /\ p + Len(word) <= Len(str)
  /\ LowerStr(Substring(str, p, p + Len(word))) = LowerStr(word)
  /\ p = 0 \/ ~IsWordChar(str[p])
  /\ p + Len(word) = Len(str) \/ ~IsWordChar(str[p + Len(word) + 1])

\* The text with every whole-word occurrence of the word replaced.
RECURSIVE WholeWordsReplaced(_, _, _, _)
WholeWordsReplaced(str, word, alias, p) ==
  IF p >= Len(str) THEN <<>>
  ELSE IF WholeWordAt(str, word, p)
       THEN alias \o WholeWordsReplaced(str, word, alias, p + Len(word))
       ELSE <<str[p + 1]>> \o WholeWordsReplaced(str, word, alias, p + 1)

\* C22: a rule replaces every occurrence of its word that stands as a whole
\* word, in any letter case, by its alias and changes nothing else.
C22_WholeWordsOnly ==
  (runs > 0 /\ (narrationLanguage = "English (US)" \/ npc = "translate")
            /\ Len(pronunciationRules) = 1) =>
    ruleAppliedText = WholeWordsReplaced(narrationText, pronunciationRules[1].word,
                                         pronunciationRules[1].alias, 0)

\* C23 (as the code has it): three buffers of durations d1, d2, d3 reach the
\* scheduler of a fresh session at clock times t1 < t2 < t3, the second before
\* the first's end (t2 < t1 + d1) and the third no later than the second's end
\* (t3 <= t1 + d1 + d2); they start at t1, t1 + d1 and t1 + d1 + d2.
C23_ThreeBuffers ==
  (/\ Len(sources) >= 3
   /\ sources[1].ctx = sources[2].ctx /\ sources[2].ctx = sources[3].ctx
   /\ sources[1].at < sources[2].at /\ sources[2].at < sources[3].at
   /\ sources[2].at < sources[1].at + sources[1].duration
   /\ sources[3].at <= sources[1].at + sources[1].duration + sources[2].duration) =>
    /\ sources[1].start = sources[1].at
    /\ sources[2].start = sources[1].at + sources[1].duration
    /\ sources[3].start = sources[1].at + sources[1].duration + sources[2].duration

\* Three buffers came at the instants 0, 1 and 2, the first two ticks long;
\* the third starts at the end of the second, after its own arrival.
C23_Witness ==
  /\ Len(sources) = 3
  /\ sources[1].at < sources[2].at /\ sources[2].at < sources[3].at
  /\ sources[2].at < sources[1].at + sources[1].duration
  /\ sources[3].at < sources[1].at + sources[1].duration + sources[2].duration
  /\ sources[1].start = sources[1].at
  /\ sources[2].start = sources[1].at + sources[1].duration
  /\ sources[3].start = sources[2].start + sources[2].duration
  /\ sources[3].start > sources[3].at

\* C23 as stated: t1 < t2 < t3 and t2 < t1 + d1 alone give the start times
\* t1, t1 + d1, t1 + d1 + d2.
C23_ThreeBuffersAnyThird ==
  (/\ Len(sources) >= 3
   /\ sources[1].ctx = sources[2].ctx /\ sources[2].ctx = sources[3].ctx
   /\ sources[1].at < sources[2].at /\ sources[2].at < sources[3].at
   /\ sources[2].at < sources[1].at + sources[1].duration) =>
    /\ sources[1].start = sources[1].at
    /\ sources[2].start = sources[1].at + sources[1].duration
    /\ sources[3].start = sources[1].at + sources[1].duration + sources[2].duration

\* C24: whenever the session is closed through stopSession (the output
\* context's ref has been cleared) the playback cursor nextStartTimeRef is 0,
\* and every step that starts a session leaves the cursor at 0.
C24_CursorReset ==
  /\ [](outputAudioContextRef = 0 => nextStartTimeRef = 0)
  /\ [][nSessions' # nSessions => nextStartTimeRef' = 0]_vars

\* C25: at any time the transcript holds at most one non-final line per
\* speaker, and when both accumulation buffers are empty (after a
\* turn-complete signal or a stop) every line is final.
C25_OneOpenLine ==
  /\ \A speaker \in {"user", "model"} :
       Cardinality({n \in 1..Len(transcript) :
                      transcript[n].speaker = speaker /\ ~transcript[n].isFinal}) <= 1
  /\ (currentInputTranscriptionRef = 0 /\ currentOutputTranscriptionRef = 0) =>
       \A n \in 1..Len(transcript) : transcript[n].isFinal

\* C26: every captured sample s = n / SampleScale in [-1, 1] is put in the
\* frame as s * 32768 rounded towards zero and brought into the 16-bit range
\* without wraparound, a value in -32768..32767 that is not negative for
\* s > 0 and not positive for s < 0.
C26_PcmInRange ==
  \A n \in 1..Len(pcmBlob) :
    /\ pcmBlob[n] \in (0 - 32768)..32767
    /\ pcmBlob[n] = ClampInt16(TruncDiv(input[n] * PcmScale, SampleScale))
    /\ input[n] > 0 => pcmBlob[n] >= 0
    /\ input[n] < 0 => pcmBlob[n] <= 0

\* C27: a translation request is issued only by the step that starts a run,
\* for a target language other than 'English (US)', carrying the whole
\* rule-substituted script, before anything is chunked or dispatched; a run
\* in 'English (US)' issues none; and the chunks that are synthesized are the
\* chunks of the run's text as a whole, the rule-substituted script or its
\* translation, each dispatched as it was cut.
C27_StepOrder ==
  /\ [][ (inFlight'.kind = "translate" /\ inFlight.kind # "translate") =>
           /\ runs' = runs + 1
           /\ narrationLanguage' # "English (US)"
           /\ inFlight'.text = ApplyRules(narrationText', pronunciationRules')
           /\ runChunks' = <<>> /\ dispatched' = <<>> ]_vars
  /\ [][ runs' # runs =>
           (inFlight'.kind = "translate" <=> narrationLanguage' # "English (US)") ]_vars
  /\ [](npc \in {"synthesize", "fetchClip", "pause"} =>
          /\ runChunks = splitTextIntoChunks(ruleAppliedText, NarrMaxChars)
          /\ narrationLanguage = "English (US)" =>
               ruleAppliedText = ApplyRules(narrationText, pronunciationRules)
          /\ inFlight.kind = "synthesize" =>
               inFlight.text = Rewrap(runChunks[inFlight.chunk], isSsml))

\* A script of several chunks that a rule has changed is in flight to the
\* translation as one request.
C27_Witness ==
  /\ npc = "translate"
  /\ inFlight.kind = "translate"
  /\ inFlight.text = ApplyRules(narrationText, pronunciationRules)
  /\ inFlight.text # narrationText
  /\ Len(splitTextIntoChunks(inFlight.text, NarrMaxChars)) >= 2
  /\ runChunks = <<>>

C29_ActiveSources ==
  /\ sourcesRef = {n \in 1..Len(sources) :
                     sources[n].status = "scheduled" /\ sources[n].ctx = outputAudioContextRef}
  /\ ~isSessionActive => sourcesRef = {}

\* C30: at any time at most one session's channel is connecting or open and
\* at most one session's microphone stream is live.
C30_OneChannelOneMic ==
  /\ Cardinality({k \in Sessions : session[k].channel \in {"connecting", "open"}}) <= 1
  /\ Cardinality({k \in Sessions : session[k].micLive}) <= 1

====
